---------------------------- MODULE Spec2Model ----------------------------
(***************************************************************************)
(* A model of the TOB calculator (src/tob_calculator.py, src/app.py):      *)
(* the statement pipeline process_statements and the functions it calls,   *)
(* group_transactions, fetch_ecb_rates / get_rate_with_fallback and        *)
(* calculate_tob, and the upload handler that reports the run's outcome.   *)
(*                                                                         *)
(* Representation.                                                         *)
(*  - A date string 'YYYY-MM-DD' is the integer YYYYMMDD: the order of the *)
(*    integers is the order of the zero-padded strings the code compares   *)
(*    and sorts.  strptime / timedelta / strftime are modelled on the      *)
(*    calendar (PrevDay), not as integer subtraction.                      *)
(*  - Money is an integer number of mills (1/1000 of a currency unit), so  *)
(*    that amounts with three fraction digits exist.  Rates are integers   *)
(*    in 1/10000.  The code computes in binary floating point; the model   *)
(*    computes the same quotients and products exactly and rounds them     *)
(*    half-to-even at 2 decimals, which is what the built-in round does on *)
(*    the exact value of its argument.                                     *)
(***************************************************************************)
EXTENDS Integers, Sequences, FiniteSets, TLC

VARIABLES
    pc,                 \* position of the run inside upload_files / process_statements
    pdf_paths,          \* the input texts of the run, in upload order
    next_pdf,           \* index of the next input text to extract
    all_transactions,   \* raw transactions extracted so far
    grouped,            \* result of group_transactions
    dates_needed,       \* set of dates passed to fetch_ecb_rates
    reachable,          \* whether the HTTP GET of the rate document succeeds
    cubes,              \* the date cubes of the rate document, in document order
    rates,              \* the table fetch_ecb_rates is building
    ecb_rates,          \* the table fetch_ecb_rates returned to process_statements
    to_visit,           \* dates the second loop of fetch_ecb_rates has not visited
    results,            \* result of calculate_tob
    totals,             \* <<total_eur, total_tob>>
    error,              \* the exception that ended the run, if any
    flash,              \* what upload_files reports to the user
    http_gets,          \* number of requests made to the rate source
    frame               \* the local variables of an extractor called on its own:
                        \*   lines              the lines of the text
                        \*   i                  index of the line the loop is at
                        \*   in_stocks_section  \ extract_ib_transactions only;
                        \*   current_currency   / "" stands for None
                        \*   transactions       the records appended so far

vars == <<pc, pdf_paths, next_pdf, all_transactions, grouped, dates_needed,
          reachable, cubes, rates, ecb_rates, to_visit, results, totals, error,
          flash, http_gets, frame>>

-----------------------------------------------------------------------------
(* Bounds of the model *)

MaxCubes == 2
MaxDates == 2
MaxRaw == 3
MaxTexts == 2
MaxGrouped == 2
MaxLines == 5
MaxSaxoLines == 2

(* Program constants *)

FallbackDays == 5
TobRatePerTenThousand == 35
RateUnit == 10000
NoDate == 0

-----------------------------------------------------------------------------
(* Calendar: datetime.strptime(date, '%Y-%m-%d'), timedelta(days=i), strftime *)

YearOf(date) == date \div 10000
MonthOf(date) == (date \div 100) % 100
DayOf(date) == date % 100
MkDate(y, m, d) == y * 10000 + m * 100 + d

IsLeap(y) == (y % 4 = 0 /\ y % 100 # 0) \/ y % 400 = 0

DaysInMonth(y, m) ==
    IF m \in {4, 6, 9, 11} THEN 30
    ELSE IF m = 2 THEN (IF IsLeap(y) THEN 29 ELSE 28)
    ELSE 31

\* strptime accepts exactly the dates of the calendar
IsCalendarDate(date) ==
    /\ YearOf(date) \in 1..9999
    /\ MonthOf(date) \in 1..12
    /\ DayOf(date) \in 1..DaysInMonth(YearOf(date), MonthOf(date))

\* current_date - timedelta(days=1)
PrevDay(date) ==
    LET y == YearOf(date)
        m == MonthOf(date)
        d == DayOf(date)
    IN  IF d > 1 THEN MkDate(y, m, d - 1)
        ELSE IF m > 1 THEN MkDate(y, m - 1, DaysInMonth(y, m - 1))
        ELSE MkDate(y - 1, 12, 31)

\* (current_date - timedelta(days=i)).strftime('%Y-%m-%d')
RECURSIVE MinusDays(_, _)
MinusDays(date, i) == IF i = 0 THEN date ELSE MinusDays(PrevDay(date), i - 1)

-----------------------------------------------------------------------------
(* Raw and grouped transactions *)

IB == "Interactive Brokers"
SAXO == "Saxo Bank"

\* Order of the strings the sort key compares: 'Interactive Brokers' < 'Saxo Bank',
\* and the instrument names of the model in alphabetical order.
BrokerRank(b) == IF b = IB THEN 1 ELSE 2
StockRank(s) == CASE s = "ABC" -> 1 [] s = "JDC" -> 2 [] s = "XYZ" -> 3 [] OTHER -> 4

Raw(d, b, s, ty, sh, c, am) ==
    [date |-> d, broker |-> b, stock |-> s, type |-> ty, shares |-> sh,
     currency |-> c, amount |-> am]

\* variant of the key that leaves the side out
KeyNoSide(t) == <<t.date, t.broker, t.stock, "Buy", t.currency>>
\* key = (t['date'], t['broker'], t['stock'], t['type'], t['currency'])
KeyOf(t) == <<t.date, t.broker, t.stock, t.type, t.currency>>

\* position of key in the dict (insertion order), 0 when absent
KeyPos(acc, key) ==
    IF \E k \in 1..Len(acc) : acc[k].key = key
    THEN CHOOSE k \in 1..Len(acc) : acc[k].key = key
    ELSE 0

\* variant of the loop body that forgets to record the member
AddNoCount(acc, t) ==
    LET key == KeyOf(t)
        pos == KeyPos(acc, key)
    IN  IF pos = 0
        THEN Append(acc, [key |-> key, shares |-> 0 + t.shares,
                          amount |-> 0 + t.amount, transactions |-> <<t>>])
        ELSE [acc EXCEPT ![pos] = [@ EXCEPT !.shares = @ + t.shares,
                                           !.amount = @ + t.amount]]
\* one iteration of  for t in transactions  over the defaultdict
AddToGroup(acc, t) ==
    LET key == KeyOf(t)
        pos == KeyPos(acc, key)
    IN  IF pos = 0
        THEN Append(acc, [key |-> key, shares |-> 0 + t.shares,
                          amount |-> 0 + t.amount, transactions |-> <<t>>])
        ELSE [acc EXCEPT ![pos] = [@ EXCEPT !.shares = @ + t.shares,
                                           !.amount = @ + t.amount,
                                           !.transactions = Append(@, t)]]

RECURSIVE Accumulate(_, _, _)
Accumulate(transactions, i, acc) ==
    IF i > Len(transactions) THEN acc
    ELSE Accumulate(transactions, i + 1, AddToGroup(acc, transactions[i]))

\* result.append({...}) for key, data in grouped.items()
GroupRecord(data) ==
    [date |-> data.key[1], broker |-> data.key[2], stock |-> data.key[3],
     type |-> data.key[4], shares |-> data.shares, currency |-> data.key[5],
     amount |-> data.amount, grouped_count |-> Len(data.transactions)]

\* variant of the sort key that holds the date only
SortKeyDateOnly(a, b) == a.date < b.date
\* key=lambda x: (x['date'], x['broker'], x['stock']), compared as tuples
SortKeyLess(a, b) ==
    \/ a.date < b.date
    \/ a.date = b.date /\ BrokerRank(a.broker) < BrokerRank(b.broker)
    \/ a.date = b.date /\ a.broker = b.broker
          /\ StockRank(a.stock) < StockRank(b.stock)

\* sorted() is stable: x goes after every element whose key is not greater
RECURSIVE InsertSorted(_, _)
InsertSorted(sorted, x) ==
    IF sorted = <<>> THEN <<x>>
    ELSE IF SortKeyLess(x, Head(sorted)) THEN <<x>> \o sorted
    ELSE <<Head(sorted)>> \o InsertSorted(Tail(sorted), x)

\* variant that takes the elements from the last to the first, which puts
\* elements of equal key in reverse order
RECURSIVE SortedFromEnd(_, _, _)
SortedFromEnd(result, i, out) ==
    IF i > Len(result) THEN out
    ELSE SortedFromEnd(result, i + 1,
                       InsertSorted(out, result[Len(result) + 1 - i]))
RECURSIVE Sorted(_, _, _)
Sorted(result, i, out) ==
    IF i > Len(result) THEN out
    ELSE Sorted(result, i + 1, InsertSorted(out, result[i]))

group_transactions(transactions) ==
    LET acc == Accumulate(transactions, 1, <<>>)
        result == [k \in 1..Len(acc) |-> GroupRecord(acc[k])]
    IN  Sorted(result, 1, <<>>)

-----------------------------------------------------------------------------
(* Rate document and rate table.  A date cube is [time, row]; a row maps    *)
(* the currencies the cube lists to their rates.                            *)

NoRow == [missing |-> TRUE]

\* rates[date] = {'EUR': 1.0}, then rates[date][currency] = rate for every
\* currency cube of the date cube, in that order
RowOf(cube) ==
    [c \in {"EUR"} \cup DOMAIN cube.row |->
        IF c \in DOMAIN cube.row THEN cube.row[c] ELSE RateUnit]

\* rates[date] = ... on a dict
Store(table, date, row) ==
    [d \in DOMAIN table \cup {date} |-> IF d = date THEN row ELSE table[d]]

\* first loop of fetch_ecb_rates: for date_cube in root.findall(...)
RECURSIVE DirectRates(_, _, _, _)
DirectRates(doc, needed, i, table) ==
    IF i > Len(doc) THEN table
    ELSE DirectRates(doc, needed, i + 1,
                     IF doc[i].time \in needed
                     THEN Store(table, doc[i].time, RowOf(doc[i]))
                     ELSE table)

\* inner loop of get_rate_with_fallback: the first cube whose time is prev_date
FirstCube(doc, prev_date) ==
    IF \E k \in 1..Len(doc) : doc[k].time = prev_date
    THEN LET k == CHOOSE k \in 1..Len(doc) :
                    /\ doc[k].time = prev_date
                    /\ \A j \in 1..(k - 1) : doc[j].time # prev_date
         IN  RowOf(doc[k])
    ELSE NoRow

\* for i in range(1, 6), from i on; NoRow stands for the ValueError raised
RECURSIVE TryDaysBack(_, _, _, _)
TryDaysBack(doc, date, i, last) ==
    IF i > last THEN NoRow
    ELSE LET found == FirstCube(doc, MinusDays(date, i))
         IN  IF found # NoRow THEN found
             ELSE TryDaysBack(doc, date, i + 1, last)

\* variant that searches one day further back: range(1, 7)
FallbackOneDayMore(doc, date) ==
    IF ~IsCalendarDate(date) THEN NoRow
    ELSE TryDaysBack(doc, date, 1, FallbackDays + 1)
\* get_rate_with_fallback: strptime, then the search 1 to 5 days back
get_rate_with_fallback(doc, date) ==
    IF ~IsCalendarDate(date) THEN NoRow
    ELSE TryDaysBack(doc, date, 1, FallbackDays)

-----------------------------------------------------------------------------
(* Tax computation *)

\* n / d rounded half-to-even to an integer (n >= 0, d > 0)
RoundHalfEven(n, d) ==
    LET q == n \div d
        r == n % d
    IN  IF 2 * r < d THEN q
        ELSE IF 2 * r > d THEN q + 1
        ELSE IF q % 2 = 0 THEN q ELSE q + 1

\* round(amount / rate, 2), in mills: the quotient in cents is
\* 1000 * amount / rate; it is computed from amount = q * rate + r so that no
\* intermediate product leaves the range of the checker's integers
ConvertToEur(amount, rate) ==
    LET q == amount \div rate
        r == amount % rate
    IN  10 * (1000 * q + RoundHalfEven(1000 * r, rate))

\* variant that cuts the tax to 2 decimals instead of rounding it
TobTruncated(eur_amount) ==
    10 * (((eur_amount \div 10) * TobRatePerTenThousand) \div 10000)
\* round(eur_amount * 0.0035, 2), in mills
TobOf(eur_amount) ==
    10 * RoundHalfEven((eur_amount \div 10) * TobRatePerTenThousand, 10000)

HasRate(table, t) ==
    /\ t.date \in DOMAIN table
    /\ t.currency \in DOMAIN table[t.date]

\* one iteration of  for t in transactions  past the rate check
Taxed(t, table) ==
    LET rate == table[t.date][t.currency]
        eur_amount == ConvertToEur(t.amount, rate)
    IN  [date |-> t.date, broker |-> t.broker, stock |-> t.stock,
         type |-> t.type, shares |-> t.shares, currency |-> t.currency,
         amount |-> t.amount, grouped_count |-> t.grouped_count,
         rate |-> rate, eur_amount |-> eur_amount, tob |-> TobOf(eur_amount)]

\* calculate_tob: the rows, or the first transaction whose rate is missing
calculate_tob(transactions, table) ==
    IF \E k \in 1..Len(transactions) : ~HasRate(table, transactions[k])
    THEN LET k == CHOOSE k \in 1..Len(transactions) :
                    /\ ~HasRate(table, transactions[k])
                    /\ \A j \in 1..(k - 1) : HasRate(table, transactions[j])
         IN  [ok |-> FALSE, date |-> transactions[k].date,
              currency |-> transactions[k].currency]
    ELSE [ok |-> TRUE,
          rows |-> [k \in 1..Len(transactions) |-> Taxed(transactions[k], table)]]

RECURSIVE SumField(_, _, _)
SumField(rows, f, i) ==
    IF i > Len(rows) THEN 0 ELSE rows[i][f] + SumField(rows, f, i + 1)

-----------------------------------------------------------------------------
(* Input texts.  A text is what extract_text_from_pdf returned, reduced to  *)
(* what the code reads of it: whether it contains the broker markers, and   *)
(* its lines.  A line is reduced to the outcome of each test the extractors *)
(* make on it.                                                              *)
(*   Format A (Interactive Brokers) line:                                   *)
(*     cur    the line itself when it is one of the currency codes, else "" *)
(*     term   the line contains 'Total in GBP', 'Forex' or the header row   *)
(*     date   the date when the line matches \d{4}-\d{2}-\d{2}, else NoDate *)
(*     parts  line.split(), each token reduced to                           *)
(*              name    the token as a symbol                               *)
(*              total   name.startswith('Total')                            *)
(*              pieces  lengths of name.split('.')                          *)
(*              int     int(token.replace(',', '')) succeeds, with value iv *)
(*              float   float(token.replace(',', '')) succeeds, value fv    *)
(*   Format B (Saxo Bank) line:                                             *)
(*     cash     the line contains 'Cashbedrag' or 'Storting/opname'         *)
(*     date     the date of the leading DD-mmm-YYYY token, else NoDate      *)
(*     aandelen, koop, verkoop   the markers the line contains              *)
(*     currency the first currency code after 'Aandelen', else ""           *)
(*     stock    the text between 'Aandelen' and that code                   *)
(*     shares   the share count the patterns capture, -1 when none matches  *)
(*     cands    the values, with their sign, of the tokens matching        *)
(*              -?[\d.]+,\d{2}                                              *)
(***************************************************************************)

IBCurrencies ==
    {"JPY", "USD", "GBP", "EUR", "CAD", "AUD", "SEK", "NOK", "CHF", "HKD", "SGD"}

Tok(name, total, pieces, isInt, iv, isFloat, fv) ==
    [name |-> name, total |-> total, pieces |-> pieces,
     int |-> isInt, iv |-> iv, float |-> isFloat, fv |-> fv]

Symbol(name) == Tok(name, FALSE, <<1>>, FALSE, 0, FALSE, 0)
TotalSymbol == Tok("Total", TRUE, <<5>>, FALSE, 0, FALSE, 0)
\* a symbol with one '.', such as 3836.T or USD.JPY
DottedSymbol(name, before, after) ==
    Tok(name, FALSE, <<before, after>>, FALSE, 0, FALSE, 0)
Quantity(n) == Tok("", FALSE, <<1>>, TRUE, n, TRUE, n * 1000)
\* a number written with `decs` fraction digits, worth `mills`
Decimal(mills, decs) == Tok("", FALSE, <<1, decs>>, FALSE, 0, TRUE, mills)
Junk == Tok("--", FALSE, <<2>>, FALSE, 0, FALSE, 0)

IBLine(cur, term, date, parts) ==
    [cur |-> cur, term |-> term, date |-> date, parts |-> parts]
CurrencyLine(c) == IBLine(c, FALSE, NoDate, <<Symbol(c)>>)
TerminatorLine == IBLine("", TRUE, NoDate, <<TotalSymbol>>)
DateLine(d) == IBLine("", FALSE, d, <<Junk, Junk>>)
DataLine(parts) == IBLine("", FALSE, NoDate, parts)

Abs(n) == IF n < 0 THEN -n ELSE n

\* '.' in parts[3] and len(parts[3].split('.')[-1]) == 4
HasCPrice(parts) ==
    /\ Len(parts) >= 4
    /\ Len(parts[4].pieces) >= 2
    /\ parts[4].pieces[Len(parts[4].pieces)] = 4

\* '.' in symbol, two pieces, both of length 3
IsForexPair(symbol) ==
    /\ Len(symbol.pieces) = 2
    /\ symbol.pieces[1] = 3
    /\ symbol.pieces[2] = 3

\* the body of  if re.match(date pattern, line)  for the line after the date
\* line: the record appended, or <<>> when nothing is
IBRecord(date, parts, current_currency) ==
    IF Len(parts) < 5 THEN <<>>
    ELSE IF ~parts[2].int THEN <<>>
    ELSE LET proceeds == IF HasCPrice(parts) THEN parts[5] ELSE parts[4]
         IN  IF ~proceeds.float THEN <<>>
             ELSE IF parts[1].total THEN <<>>
             ELSE IF IsForexPair(parts[1]) THEN <<>>
             ELSE <<Raw(date, IB, parts[1].name,
                        IF parts[2].iv < 0 THEN "Sell" ELSE "Buy",
                        Abs(parts[2].iv), current_currency, Abs(proceeds.fv))>>

\* variant in which the skip of a Total row leaves the line index alone
IBNextIndexTotalStays(parts, i) ==
    IF Len(parts) >= 5 /\ parts[2].int
          /\ (IF HasCPrice(parts) THEN parts[5] ELSE parts[4]).float
          /\ parts[1].total
    THEN i
    ELSE i + 1
\* the line index after the body has read the line that follows a date line:
\* i += 1 at the Total skip, at the forex skip and at the end of the loop
\* body, and the same i where the try block says  continue  on its own
\* (neither the five-token nor the four-token layout applies)
IBNextIndex(parts, i) ==
    IF Len(parts) >= 5 /\ parts[2].int
          /\ ~(HasCPrice(parts) /\ Len(parts) >= 5) /\ ~(Len(parts) >= 4)
    THEN i
    ELSE i + 1

\* variant of the loop body that stays in the section at a terminator line
IBBodyKeepsSection(lines, i, in_stocks_section, current_currency) ==
    LET line == lines[i]
    IN  IF line.cur \in IBCurrencies
        THEN [i |-> i + 1, in_stocks_section |-> TRUE,
              current_currency |-> line.cur, emitted |-> <<>>]
        ELSE LET reads == in_stocks_section /\ current_currency # ""
                             /\ line.date # NoDate /\ i + 1 <= Len(lines)
             IN  [i |-> IF reads THEN IBNextIndex(lines[i + 1].parts, i)
                        ELSE i + 1,
                  in_stocks_section |-> in_stocks_section,
                  current_currency |-> current_currency,
                  emitted |-> IF reads
                              THEN IBRecord(line.date, lines[i + 1].parts,
                                            current_currency)
                              ELSE <<>>]
\* one iteration of the while loop of extract_ib_transactions, at line i:
\* the new index and section state and the record appended, if any
IBBody(lines, i, in_stocks_section, current_currency) ==
    LET line == lines[i]
    IN  IF line.cur \in IBCurrencies
        THEN [i |-> i + 1, in_stocks_section |-> TRUE,
              current_currency |-> line.cur, emitted |-> <<>>]
        ELSE LET inside == in_stocks_section /\ ~line.term
                 currency == IF line.term THEN "" ELSE current_currency
                 reads == inside /\ currency # "" /\ line.date # NoDate
                             /\ i + 1 <= Len(lines)
             IN  [i |-> IF reads THEN IBNextIndex(lines[i + 1].parts, i)
                        ELSE i + 1,
                  in_stocks_section |-> inside,
                  current_currency |-> currency,
                  emitted |-> IF reads
                              THEN IBRecord(line.date, lines[i + 1].parts,
                                            currency)
                              ELSE <<>>]

\* the while loop of extract_ib_transactions from line i on
RECURSIVE IBScan(_, _, _, _, _)
IBScan(lines, i, in_stocks_section, current_currency, transactions) ==
    IF i > Len(lines) THEN transactions
    ELSE LET body == IBBody(lines, i, in_stocks_section, current_currency)
         IN  IBScan(lines, body.i, body.in_stocks_section,
                    body.current_currency, transactions \o body.emitted)

extract_ib_transactions(text) == IBScan(text.lines, 1, FALSE, "", <<>>)

SaxoCurrencies ==
    {"EUR", "USD", "GBP", "CAD", "AUD", "JPY", "CHF", "SEK", "NOK"}

SaxoLine(cash, date, aandelen, koop, verkoop, stock, currency, shares, cands) ==
    [cash |-> cash, date |-> date, aandelen |-> aandelen, koop |-> koop,
     verkoop |-> verkoop, stock |-> stock, currency |-> currency,
     shares |-> shares, cands |-> cands]

\* variant of the loop without the test against 2.0
RECURSIVE BoekingsbedragNoThreshold(_, _, _)
BoekingsbedragNoThreshold(cands, i, max_amount) ==
    IF i > Len(cands) THEN max_amount
    ELSE BoekingsbedragNoThreshold(cands, i + 1,
            IF Abs(cands[i]) > max_amount
            THEN Abs(cands[i]) ELSE max_amount)
\* the loop over amount_matches: the sign is dropped (replace('-', '')), a
\* value below 2.0 is passed over, a value above max_amount replaces it;
\* 0 when none was taken (boekingsbedrag is None)
RECURSIVE Boekingsbedrag(_, _, _)
Boekingsbedrag(cands, i, max_amount) ==
    IF i > Len(cands) THEN max_amount
    ELSE Boekingsbedrag(cands, i + 1,
            IF Abs(cands[i]) >= 2000 /\ Abs(cands[i]) > max_amount
            THEN Abs(cands[i]) ELSE max_amount)

\* the body of the for loop of extract_saxo_transactions for one line
SaxoRecord(line) ==
    IF line.cash THEN <<>>
    ELSE IF ~(line.date # NoDate /\ line.aandelen /\ (line.koop \/ line.verkoop))
    THEN <<>>
    ELSE IF line.currency \notin SaxoCurrencies THEN <<>>
    ELSE IF line.shares < 0 THEN <<>>
    ELSE IF line.cands = <<>> THEN <<>>
    ELSE LET boekingsbedrag == Boekingsbedrag(line.cands, 1, 0)
         IN  IF boekingsbedrag = 0 THEN <<>>
             ELSE <<Raw(line.date, SAXO, line.stock,
                        IF line.koop THEN "Buy" ELSE "Sell",
                        line.shares, line.currency, boekingsbedrag)>>

RECURSIVE SaxoScan(_, _)
SaxoScan(lines, i) ==
    IF i > Len(lines) THEN <<>>
    ELSE SaxoRecord(lines[i]) \o SaxoScan(lines, i + 1)

extract_saxo_transactions(text) == SaxoScan(text.lines, 1)

\* detect_broker
detect_broker(text) ==
    IF text.ib THEN IB
    ELSE IF text.saxo THEN SAXO
    ELSE "Unknown"

Text(ib, saxo, lines) == [ib |-> ib, saxo |-> saxo, lines |-> lines]

\* the local variables of an extractor call
Frame(lines, i, in_stocks_section, current_currency, transactions) ==
    [lines |-> lines, i |-> i, in_stocks_section |-> in_stocks_section,
     current_currency |-> current_currency, transactions |-> transactions]

-----------------------------------------------------------------------------
(* The run: upload_files calls process_statements, which extracts every     *)
(* text, groups, fetches the rates, computes the tax and returns.           *)

NoError == [kind |-> "none", date |-> NoDate, currency |-> "", input |-> 0]
Raise(kind, date, currency, input) ==
    [kind |-> kind, date |-> date, currency |-> currency, input |-> input]

\* variant that keeps only the transactions of the last text
ReplaceAll(all, transactions) == transactions
\* all_transactions.extend(transactions)
Extend(all, transactions) == all \o transactions

\* process_statements, loop body for a text of a known broker
ExtractKnown ==
    /\ pc = "extract"
    /\ next_pdf <= Len(pdf_paths)
    /\ LET text == pdf_paths[next_pdf]
           broker == detect_broker(text)
       IN  /\ broker # "Unknown"
           /\ all_transactions' =
                  Extend(all_transactions,
                         IF broker = IB THEN extract_ib_transactions(text)
                         ELSE extract_saxo_transactions(text))
    /\ next_pdf' = next_pdf + 1
    /\ UNCHANGED <<pc, pdf_paths, grouped, dates_needed, reachable, cubes,
                   rates, ecb_rates, to_visit, results, totals, error, flash,
                   http_gets>>
    /\ UNCHANGED frame

\* variant that leaves out a text of no known broker and goes on
ExtractUnknownSkips ==
    /\ pc = "extract"
    /\ next_pdf <= Len(pdf_paths)
    /\ detect_broker(pdf_paths[next_pdf]) = "Unknown"
    /\ next_pdf' = next_pdf + 1
    /\ UNCHANGED <<pc, error, pdf_paths, all_transactions, grouped,
                   dates_needed, reachable, cubes, rates, ecb_rates, to_visit,
                   results, totals, flash, http_gets>>
    /\ UNCHANGED frame
\* process_statements, loop body for a text of no known broker
ExtractUnknown ==
    /\ pc = "extract"
    /\ next_pdf <= Len(pdf_paths)
    /\ detect_broker(pdf_paths[next_pdf]) = "Unknown"
    /\ pc' = "raised"
    /\ error' = Raise("UnknownBroker", NoDate, "", next_pdf)
    /\ UNCHANGED <<pdf_paths, next_pdf, all_transactions, grouped,
                   dates_needed, reachable, cubes, rates, ecb_rates, to_visit,
                   results, totals, flash, http_gets>>
    /\ UNCHANGED frame

\* grouped = group_transactions(all_transactions); dates_needed = set(...)
Group ==
    /\ pc = "extract"
    /\ next_pdf > Len(pdf_paths)
    /\ grouped' = group_transactions(all_transactions)
    /\ dates_needed' = {grouped'[k].date : k \in 1..Len(grouped')}
    /\ pc' = "fetch"
    /\ UNCHANGED <<pdf_paths, next_pdf, all_transactions, reachable, cubes,
                   rates, ecb_rates, to_visit, results, totals, error, flash,
                   http_gets>>
    /\ UNCHANGED frame

\* fetch_ecb_rates: requests.get succeeds
HttpGetOk ==
    /\ pc = "fetch"
    /\ reachable
    /\ http_gets' = http_gets + 1
    /\ pc' = "parse"
    /\ UNCHANGED <<pdf_paths, next_pdf, all_transactions, grouped,
                   dates_needed, reachable, cubes, rates, ecb_rates, to_visit,
                   results, totals, error, flash>>
    /\ UNCHANGED frame

\* variant that tries the request a second time before giving up
HttpGetFailRetries ==
    /\ pc = "fetch"
    /\ ~reachable
    /\ http_gets' = http_gets + 1
    /\ IF http_gets < 1
       THEN UNCHANGED <<pc, error>>
       ELSE /\ pc' = "raised"
            /\ error' = Raise("FetchFailed", NoDate, "", 0)
    /\ UNCHANGED <<pdf_paths, next_pdf, all_transactions, grouped,
                   dates_needed, reachable, cubes, rates, ecb_rates, to_visit,
                   results, totals, flash>>
    /\ UNCHANGED frame
\* fetch_ecb_rates: requests.get or raise_for_status raises
HttpGetFail ==
    /\ pc = "fetch"
    /\ ~reachable
    /\ http_gets' = http_gets + 1
    /\ pc' = "raised"
    /\ error' = Raise("FetchFailed", NoDate, "", 0)
    /\ UNCHANGED <<pdf_paths, next_pdf, all_transactions, grouped,
                   dates_needed, reachable, cubes, rates, ecb_rates, to_visit,
                   results, totals, flash>>
    /\ UNCHANGED frame

\* fetch_ecb_rates: the loop over the date cubes of the document
DirectLoop ==
    /\ pc = "parse"
    /\ rates' = DirectRates(cubes, dates_needed, 1, <<>>)
    /\ to_visit' = dates_needed
    /\ pc' = "fallback"
    /\ UNCHANGED <<pdf_paths, next_pdf, all_transactions, grouped,
                   dates_needed, reachable, cubes, ecb_rates, results, totals,
                   error, flash, http_gets>>
    /\ UNCHANGED frame

\* variant of the loop body that skips a date it cannot resolve
VisitSkipsFailure(date) ==
    /\ pc = "fallback"
    /\ date \in to_visit
    /\ to_visit' = to_visit \ {date}
    /\ LET row == get_rate_with_fallback(cubes, date)
       IN  rates' = IF date \in DOMAIN rates \/ row = NoRow THEN rates
                    ELSE Store(rates, date, row)
    /\ UNCHANGED <<pc, error, pdf_paths, next_pdf, all_transactions, grouped,
                   dates_needed, reachable, cubes, ecb_rates, results, totals,
                   flash, http_gets>>
    /\ UNCHANGED frame
\* fetch_ecb_rates: one iteration of  for date in dates_needed  (a set: the
\* order of the visits is not fixed)
Visit(date) ==
    /\ pc = "fallback"
    /\ date \in to_visit
    /\ to_visit' = to_visit \ {date}
    /\ IF date \in DOMAIN rates
       THEN UNCHANGED <<pc, rates, error>>
       ELSE LET row == get_rate_with_fallback(cubes, date)
            IN  IF row = NoRow
                THEN /\ pc' = "raised"
                     /\ error' = Raise("NoRateFound", date, "", 0)
                     /\ UNCHANGED rates
                ELSE /\ rates' = Store(rates, date, row)
                     /\ UNCHANGED <<pc, error>>
    /\ UNCHANGED <<pdf_paths, next_pdf, all_transactions, grouped,
                   dates_needed, reachable, cubes, ecb_rates, results, totals,
                   flash, http_gets>>
    /\ UNCHANGED frame

\* fetch_ecb_rates: return rates
ReturnRates ==
    /\ pc = "fallback"
    /\ to_visit = {}
    /\ ecb_rates' = rates
    /\ pc' = "tax"
    /\ UNCHANGED <<pdf_paths, next_pdf, all_transactions, grouped,
                   dates_needed, reachable, cubes, rates, to_visit, results,
                   totals, error, flash, http_gets>>
    /\ UNCHANGED frame

\* results = calculate_tob(grouped, ecb_rates)
CalculateTob ==
    /\ pc = "tax"
    /\ LET r == calculate_tob(grouped, ecb_rates)
       IN  IF r.ok
           THEN /\ results' = r.rows
                /\ pc' = "totals"
                /\ UNCHANGED error
           ELSE /\ pc' = "raised"
                /\ error' = Raise("NoRateForCurrency", r.date, r.currency, 0)
                /\ UNCHANGED results
    /\ UNCHANGED <<pdf_paths, next_pdf, all_transactions, grouped,
                   dates_needed, reachable, cubes, rates, ecb_rates, to_visit,
                   totals, flash, http_gets>>
    /\ UNCHANGED frame

\* total_eur, total_tob and the return of process_statements
ReturnResults ==
    /\ pc = "totals"
    /\ totals' = <<SumField(results, "eur_amount", 1), SumField(results, "tob", 1)>>
    /\ pc' = "returned"
    /\ UNCHANGED <<pdf_paths, next_pdf, all_transactions, grouped,
                   dates_needed, reachable, cubes, rates, ecb_rates, to_visit,
                   results, error, flash, http_gets>>
    /\ UNCHANGED frame

\* upload_files: if not results['transactions'], flash the warning
ReportEmpty ==
    /\ pc = "returned"
    /\ results = <<>>
    /\ flash' = "warning"
    /\ pc' = "done"
    /\ UNCHANGED <<pdf_paths, next_pdf, all_transactions, grouped,
                   dates_needed, reachable, cubes, rates, ecb_rates, to_visit,
                   results, totals, error, http_gets>>
    /\ UNCHANGED frame

\* upload_files: generate the reports and redirect to the results page
ReportResults ==
    /\ pc = "returned"
    /\ results # <<>>
    /\ flash' = "results"
    /\ pc' = "done"
    /\ UNCHANGED <<pdf_paths, next_pdf, all_transactions, grouped,
                   dates_needed, reachable, cubes, rates, ecb_rates, to_visit,
                   results, totals, error, http_gets>>
    /\ UNCHANGED frame

\* upload_files: except Exception, flash the error
ReportError ==
    /\ pc = "raised"
    /\ flash' = "error"
    /\ pc' = "done"
    /\ UNCHANGED <<pdf_paths, next_pdf, all_transactions, grouped,
                   dates_needed, reachable, cubes, rates, ecb_rates, to_visit,
                   results, totals, error, http_gets>>
    /\ UNCHANGED frame

\* extract_ib_transactions called on its own: one iteration of its loop
IBIterate ==
    /\ pc = "ib_loop"
    /\ frame.i <= Len(frame.lines)
    /\ LET body == IBBody(frame.lines, frame.i, frame.in_stocks_section,
                          frame.current_currency)
       IN  frame' = Frame(frame.lines, body.i, body.in_stocks_section,
                          body.current_currency,
                          frame.transactions \o body.emitted)
    /\ UNCHANGED <<pc, pdf_paths, next_pdf, all_transactions, grouped,
                   dates_needed, reachable, cubes, rates, ecb_rates, to_visit,
                   results, totals, error, flash, http_gets>>

\* extract_ib_transactions: the loop condition fails, return transactions
IBReturn ==
    /\ pc = "ib_loop"
    /\ frame.i > Len(frame.lines)
    /\ pc' = "ib_returned"
    /\ UNCHANGED <<pdf_paths, next_pdf, all_transactions, grouped,
                   dates_needed, reachable, cubes, rates, ecb_rates, to_visit,
                   results, totals, error, flash, http_gets, frame>>

\* extract_saxo_transactions called on its own: one iteration of
\* for line in lines
SaxoIterate ==
    /\ pc = "saxo_loop"
    /\ frame.i <= Len(frame.lines)
    /\ frame' = [frame EXCEPT
                    !.i = @ + 1,
                    !.transactions = @ \o SaxoRecord(frame.lines[frame.i])]
    /\ UNCHANGED <<pc, pdf_paths, next_pdf, all_transactions, grouped,
                   dates_needed, reachable, cubes, rates, ecb_rates, to_visit,
                   results, totals, error, flash, http_gets>>

\* extract_saxo_transactions: the lines are exhausted, return transactions
SaxoReturn ==
    /\ pc = "saxo_loop"
    /\ frame.i > Len(frame.lines)
    /\ pc' = "saxo_returned"
    /\ UNCHANGED <<pdf_paths, next_pdf, all_transactions, grouped,
                   dates_needed, reachable, cubes, rates, ecb_rates, to_visit,
                   results, totals, error, flash, http_gets, frame>>

-----------------------------------------------------------------------------
(* Inputs of the model *)

\* sequences over S of length lo..hi
SeqsOf(S, lo, hi) == UNION {[1..n -> S] : n \in lo..hi}

\* Rate rows a date cube may carry: an ordinary row, a row that lacks GBP,
\* and a row that lists the reference currency itself.
RowUsdGbp == ("USD" :> 10500) @@ ("GBP" :> 8400)
RowUsdOnly == ("USD" :> 10500)
RowListsEur == ("EUR" :> 10100) @@ ("USD" :> 10400) @@ ("GBP" :> 8300)
CubeRows == {RowUsdGbp, RowListsEur}

\* Seven consecutive days around the end of February of a leap year
WindowDates ==
    {20240227, 20240228, 20240229, 20240301, 20240302, 20240303, 20240304}

\* A rate document lists each date once, the most recent first
IsDocument(doc) ==
    \A k \in 1..(Len(doc) - 1) : doc[k].time > doc[k + 1].time
Documents(dates, n) ==
    {doc \in SeqsOf([time : dates, row : CubeRows], 0, n) : IsDocument(doc)}

Grouped(d, b, s, ty, sh, c, am, n) ==
    [date |-> d, broker |-> b, stock |-> s, type |-> ty, shares |-> sh,
     currency |-> c, amount |-> am, grouped_count |-> n]

\* Raw transactions for the grouper: same key twice, both sides, two
\* currencies, two brokers, two instruments, two dates
RawDomain ==
    { Raw(20250110, IB, "ABC", "Buy", 100, "USD", 1000000),
      Raw(20250110, IB, "ABC", "Buy", 50, "USD", 500000),
      Raw(20250110, IB, "ABC", "Sell", 30, "USD", 310000),
      Raw(20250110, IB, "ABC", "Buy", 7, "EUR", 70125),
      Raw(20250110, IB, "XYZ", "Sell", 20, "USD", 99990),
      Raw(20250110, SAXO, "ABC", "Buy", 5, "USD", 51000),
      Raw(20250110, SAXO, "JDC", "Sell", 889, "EUR", 23102440),
      Raw(20250109, IB, "XYZ", "Buy", 1, "USD", 2500),
      Raw(20250109, SAXO, "JDC", "Buy", 655, "EUR", 26625960),
      Raw(20250109, SAXO, "JDC", "Sell", 3, "EUR", 120000) }

\* no extractor call is in progress
InitExtractor == frame = Frame(<<>>, 1, FALSE, "", <<>>)

InitCommon ==
    /\ grouped = <<>>
    /\ dates_needed = {}
    /\ rates = <<>>
    /\ ecb_rates = <<>>
    /\ to_visit = {}
    /\ results = <<>>
    /\ totals = <<0, 0>>
    /\ error = NoError
    /\ flash = "none"
    /\ http_gets = 0
    /\ InitExtractor

(* The grouper alone: group_transactions applied to any raw sequence *)
InitGroup ==
    /\ pc = "extract"
    /\ pdf_paths = <<>>
    /\ next_pdf = 1
    /\ all_transactions \in SeqsOf(RawDomain, 0, MaxRaw)
    /\ reachable = TRUE
    /\ cubes = <<>>
    /\ InitCommon

NextGroup == Group

SpecGroup == InitGroup /\ [][NextGroup]_vars

(* The run from fetch_ecb_rates on: any set of dates against any document *)
GroupedOn(date) ==
    Grouped(date, IB, "ABC", "Buy", 100, "USD", 1000000, 1)

RECURSIVE GroupedFor(_)
GroupedFor(dates) ==
    IF dates = {} THEN <<>>
    ELSE LET d == CHOOSE d \in dates : \A e \in dates : d <= e
         IN  <<GroupedOn(d)>> \o GroupedFor(dates \ {d})

InitRates ==
    /\ pc = "fetch"
    /\ pdf_paths = <<>>
    /\ next_pdf = 1
    /\ all_transactions = <<>>
    /\ reachable = TRUE
    /\ cubes \in Documents(WindowDates, MaxCubes)
    /\ \E dates \in SUBSET WindowDates :
          /\ Cardinality(dates) <= MaxDates
          /\ dates_needed = dates
          /\ grouped = GroupedFor(dates)
    /\ rates = <<>>
    /\ ecb_rates = <<>>
    /\ to_visit = {}
    /\ results = <<>>
    /\ totals = <<0, 0>>
    /\ error = NoError
    /\ flash = "none"
    /\ http_gets = 0
    /\ InitExtractor

NextRates ==
    \/ HttpGetOk
    \/ DirectLoop
    \/ \E date \in to_visit : Visit(date)
    \/ ReturnRates
    \/ CalculateTob
    \/ ReturnResults
    \/ ReportEmpty
    \/ ReportResults
    \/ ReportError

SpecRates == InitRates /\ [][NextRates]_vars

(* calculate_tob alone: any sequence of grouped transactions against any   *)
(* table                                                                    *)
GroupedDomain ==
    { Grouped(20250110, IB, "ABC", "Buy", 150, "USD", 1500000, 2),
      Grouped(20250110, IB, "XYZ", "Sell", 20, "EUR", 1050123, 1),
      Grouped(20250110, SAXO, "JDC", "Sell", 889, "EUR", 23102440, 1),
      Grouped(20250109, IB, "XYZ", "Sell", 30, "GBP", 99990, 3),
      Grouped(20250109, IB, "XYZ", "Buy", 1, "USD", 2500, 1) }

TableRows == {RowOf([time |-> NoDate, row |-> r]) :
                 r \in {RowUsdGbp, RowUsdOnly, RowListsEur}}
Tables == UNION {[D -> TableRows] : D \in SUBSET {20250109, 20250110}}

InitTax ==
    /\ pc = "tax"
    /\ pdf_paths = <<>>
    /\ next_pdf = 1
    /\ all_transactions = <<>>
    /\ grouped \in SeqsOf(GroupedDomain, 0, MaxGrouped)
    /\ dates_needed = {grouped[k].date : k \in 1..Len(grouped)}
    /\ reachable = TRUE
    /\ cubes = <<>>
    /\ rates = <<>>
    /\ ecb_rates \in Tables
    /\ to_visit = {}
    /\ results = <<>>
    /\ totals = <<0, 0>>
    /\ error = NoError
    /\ flash = "none"
    /\ http_gets = 0
    /\ InitExtractor

NextTax == CalculateTob \/ ReturnResults

SpecTax == InitTax /\ [][NextTax]_vars

(* The whole run: upload_files on one or more texts *)
Cube(time, row) == [time |-> time, row |-> row]

PipelineDocuments ==
    { <<Cube(20250110, RowUsdGbp), Cube(20250109, RowListsEur)>>,
      <<Cube(20250110, RowUsdOnly)>>,
      <<Cube(20250103, RowUsdGbp)>> }

\* SYMBOL QUANTITY T.PRICE C.PRICE PROCEEDS COMM
TradeLine(symbol, quantity, proceeds, decs) ==
    DataLine(<<Symbol(symbol), Quantity(quantity), Decimal(10000, 4),
               Decimal(10000, 4), Decimal(proceeds, decs), Decimal(-1000, 2)>>)
\* SYMBOL QUANTITY T.PRICE PROCEEDS COMM BASIS
TradeLineNoCPrice(symbol, quantity, proceeds, decs) ==
    DataLine(<<Symbol(symbol), Quantity(quantity), Decimal(10000, 4),
               Decimal(proceeds, decs), Decimal(-1000, 2), Decimal(0, 2)>>)

ScenarioFirst ==
    Text(TRUE, FALSE,
         <<CurrencyLine("USD"), DateLine(20250110),
           TradeLine("ABC", 100, -1000000, 2), TerminatorLine>>)
ScenarioSecond ==
    Text(TRUE, FALSE,
         <<CurrencyLine("USD"), DateLine(20250110),
           TradeLine("ABC", 50, -500000, 2), TerminatorLine>>)
ScenarioBoth ==
    Text(TRUE, FALSE,
         <<CurrencyLine("USD"), DateLine(20250110),
           TradeLine("ABC", 100, -1000000, 2), DateLine(20250110),
           TradeLine("ABC", 50, -500000, 2), TerminatorLine>>)
IBEur ==
    Text(TRUE, FALSE,
         <<CurrencyLine("EUR"), DateLine(20250110),
           TradeLineNoCPrice("XYZ", -20, 1050123, 3)>>)
IBGbp ==
    Text(TRUE, FALSE,
         <<CurrencyLine("GBP"), DateLine(20250110),
           TradeLine("XYZ", -30, 99990, 2)>>)
IBEmpty ==
    Text(TRUE, FALSE, <<DataLine(<<Junk, Junk>>), TerminatorLine>>)
SaxoSunday ==
    Text(FALSE, TRUE,
         <<SaxoLine(FALSE, 20250112, TRUE, FALSE, TRUE, "JDC", "EUR", 889,
                    <<26000, 1000, 23102440>>)>>)
SaxoEmpty ==
    Text(FALSE, TRUE,
         <<SaxoLine(TRUE, 20250110, FALSE, FALSE, FALSE, "", "", -1,
                    <<500000>>)>>)
UnknownText ==
    Text(FALSE, FALSE, <<DataLine(<<Junk>>)>>)

TextCatalogue ==
    {ScenarioFirst, ScenarioSecond, ScenarioBoth, IBEur, IBGbp, IBEmpty,
     SaxoSunday, SaxoEmpty, UnknownText}

Init ==
    /\ pc = "extract"
    /\ pdf_paths \in SeqsOf(TextCatalogue, 1, MaxTexts)
    /\ next_pdf = 1
    /\ all_transactions = <<>>
    /\ reachable \in BOOLEAN
    /\ cubes \in PipelineDocuments
    /\ InitCommon

Next ==
    \/ ExtractKnown
    \/ ExtractUnknown
    \/ Group
    \/ HttpGetOk
    \/ HttpGetFail
    \/ DirectLoop
    \/ \E date \in to_visit : Visit(date)
    \/ ReturnRates
    \/ CalculateTob
    \/ ReturnResults
    \/ ReportEmpty
    \/ ReportResults
    \/ ReportError

Spec == Init /\ [][Next]_vars

(* extract_ib_transactions alone, one loop iteration per step, on two       *)
(* families of texts: every sequence of up to MaxLines lines that open or   *)
(* close a section, carry a date or carry a trade; and a section with two   *)
(* date lines, each followed by any of the rows a statement may hold.       *)

\* a line that carries a date and a section terminator: 2025-01-10, Forex
DateTerminatorLine(d) == IBLine("", TRUE, d, <<Junk, Junk>>)

\* ABC 100 10.0000 10.0000 -1000.00 -1.00
GoodRow == TradeLine("ABC", 100, -1000000, 2)
\* XYZ -20 52.5060 1050.12 -1.00 0.00
NoCPriceRow == TradeLineNoCPrice("XYZ", -20, 1050120, 2)
\* XYZ -20 52.5060 1050.12
FourTokenRow ==
    DataLine(<<Symbol("XYZ"), Quantity(-20), Decimal(52506, 4),
               Decimal(1050120, 2)>>)
\* ABC 100 10.0000 10.0000 12.5000 -1000.00 -1.00
ThreePriceRow ==
    DataLine(<<Symbol("ABC"), Quantity(100), Decimal(10000, 4),
               Decimal(10000, 4), Decimal(12500, 4), Decimal(-1000000, 2),
               Decimal(-1000, 2)>>)
\* ABC 1x0 10.0000 10.0000 -1000.00 -1.00
BadQuantityRow ==
    DataLine(<<Symbol("ABC"), Junk, Decimal(10000, 4), Decimal(10000, 4),
               Decimal(-1000000, 2), Decimal(-1000, 2)>>)
\* ABC 100 10.0000 10.0000 n/a -1.00
BadProceedsRow ==
    DataLine(<<Symbol("ABC"), Quantity(100), Decimal(10000, 4),
               Decimal(10000, 4), Junk, Decimal(-1000, 2)>>)
\* Total 150 10.0000 10.0000 -1500.00 -2.00
TotalRow ==
    DataLine(<<TotalSymbol, Quantity(150), Decimal(10000, 4),
               Decimal(10000, 4), Decimal(-1500000, 2), Decimal(-2000, 2)>>)
\* USD.JPY 5 10.0000 10.0000 -50.00 -1.00
ForexRow ==
    DataLine(<<DottedSymbol("USD.JPY", 3, 3), Quantity(5), Decimal(10000, 4),
               Decimal(10000, 4), Decimal(-50000, 2), Decimal(-1000, 2)>>)
\* 3836.T -500 1,736.0000 1,730.0000 868,000 -457.06
JapanRow ==
    DataLine(<<DottedSymbol("3836.T", 4, 1), Quantity(-500),
               Decimal(1736000, 4), Decimal(1730000, 4),
               Quantity(868000), Decimal(-457060, 2)>>)
\* ABC 100
FewTokensRow == DataLine(<<Symbol("ABC"), Quantity(100)>>)
\* ABC -10 0.0000 0.0000 0.00 0.00
ZeroProceedsRow == TradeLine("ABC", -10, 0, 2)
\* 2025-01-11, 7 10.0000 10.0000 -70.00 : a row that is a date line as well
DateRow ==
    IBLine("", FALSE, 20250111,
           <<Symbol("2025-01-11,"), Quantity(7), Decimal(10000, 4),
             Decimal(10000, 4), Decimal(-70000, 2)>>)

SectionLines ==
    {CurrencyLine("USD"), CurrencyLine("EUR"), TerminatorLine,
     DateLine(20250110), DateTerminatorLine(20250110), GoodRow}

Rows ==
    {GoodRow, NoCPriceRow, FourTokenRow, ThreePriceRow, BadQuantityRow,
     BadProceedsRow, TotalRow, ForexRow, JapanRow, FewTokensRow,
     ZeroProceedsRow, DateRow}

IBTexts ==
    SeqsOf(SectionLines, 0, MaxLines)
       \cup {<<CurrencyLine("USD"), DateLine(20250110), first,
               DateLine(20250113), second>> : first \in Rows, second \in Rows}

InitIB ==
    /\ pc = "ib_loop"
    /\ \E lines \in IBTexts : frame = Frame(lines, 1, FALSE, "", <<>>)
    /\ pdf_paths = <<>>
    /\ next_pdf = 1
    /\ all_transactions = <<>>
    /\ grouped = <<>>
    /\ dates_needed = {}
    /\ reachable = TRUE
    /\ cubes = <<>>
    /\ rates = <<>>
    /\ ecb_rates = <<>>
    /\ to_visit = {}
    /\ results = <<>>
    /\ totals = <<0, 0>>
    /\ error = NoError
    /\ flash = "none"
    /\ http_gets = 0

NextIB == IBIterate \/ IBReturn

SpecIB == InitIB /\ [][NextIB]_vars

\* the loop runs on as long as it can
SpecIBFair == SpecIB /\ WF_vars(NextIB)

(* extract_saxo_transactions alone, one line per step, on every text of up  *)
(* to MaxSaxoLines lines: lines that fail one test of the line filter, and  *)
(* lines that pass it with any of a range of candidate amounts.             *)

\* 1,99  2,00  -26.625,96  23.102,44
CandidateValues == {1990, 2000, -26625960, 23102440}

CandidateLists ==
    SeqsOf(CandidateValues, 0, 2)
       \cup { <<26000, 1000, 23102440>>, <<40650, 1000, -26625960, 5000>>,
               <<1000, 1990, 1500>> }

\* 28-nov-2025 01-dec-2025 6494810500 Aandelen JDC Group AG EUR Verkoop
\* SLUITEN -889 ... with the candidate amounts cands
TradeOf(cands) ==
    SaxoLine(FALSE, 20251128, TRUE, FALSE, TRUE, "JDC", "EUR", 889, cands)

\* lines that fail one test of the filter each and hold an amount of 500,00
FilteredLines ==
    { SaxoLine(TRUE, 20251128, TRUE, TRUE, FALSE, "JDC", "EUR", 5, <<500000>>),
      SaxoLine(FALSE, NoDate, TRUE, TRUE, FALSE, "JDC", "EUR", 5, <<500000>>),
      SaxoLine(FALSE, 20251128, FALSE, TRUE, FALSE, "JDC", "EUR", 5, <<500000>>),
      SaxoLine(FALSE, 20251128, TRUE, FALSE, FALSE, "JDC", "EUR", 5, <<500000>>),
      SaxoLine(FALSE, 20251128, TRUE, TRUE, FALSE, "JDC", "", 5, <<500000>>),
      SaxoLine(FALSE, 20251128, TRUE, TRUE, FALSE, "JDC", "EUR", -1, <<500000>>) }

SaxoLines == {TradeOf(cands) : cands \in CandidateLists} \cup FilteredLines

InitSaxo ==
    /\ pc = "saxo_loop"
    /\ \E lines \in SeqsOf(SaxoLines, 0, MaxSaxoLines) :
          frame = Frame(lines, 1, FALSE, "", <<>>)
    /\ pdf_paths = <<>>
    /\ next_pdf = 1
    /\ all_transactions = <<>>
    /\ grouped = <<>>
    /\ dates_needed = {}
    /\ reachable = TRUE
    /\ cubes = <<>>
    /\ rates = <<>>
    /\ ecb_rates = <<>>
    /\ to_visit = {}
    /\ results = <<>>
    /\ totals = <<0, 0>>
    /\ error = NoError
    /\ flash = "none"
    /\ http_gets = 0

NextSaxo == SaxoIterate \/ SaxoReturn

SpecSaxo == InitSaxo /\ [][NextSaxo]_vars

-----------------------------------------------------------------------------
(* Properties of group_transactions (SpecGroup).  In the state after Group, *)
(* all_transactions is the input and grouped the output.                    *)

SameInstrumentDay(t, g) ==
    /\ t.date = g.date
    /\ t.broker = g.broker
    /\ t.stock = g.stock
    /\ t.currency = g.currency

Members(g) ==
    {k \in 1..Len(all_transactions) :
        /\ SameInstrumentDay(all_transactions[k], g)
        /\ all_transactions[k].type = g.type}

RECURSIVE SumOver(_, _, _)
SumOver(rows, f, indices) ==
    IF indices = {} THEN 0
    ELSE LET k == CHOOSE k \in indices : TRUE
         IN  rows[k][f] + SumOver(rows, f, indices \ {k})

\* C1: a Buy and a Sell of the same date, broker, instrument and currency are
\* never merged: the output then holds two distinct records, one Buy and one
\* Sell, and every record's member count and shares come from raw
\* transactions of its own side only.
C1_SideIsolation ==
    pc = "fetch" =>
       /\ \A i, j \in 1..Len(all_transactions) :
             ( /\ all_transactions[i].type = "Buy"
               /\ all_transactions[j].type = "Sell"
               /\ SameInstrumentDay(all_transactions[i], all_transactions[j]) )
             => \E a, b \in 1..Len(grouped) :
                   /\ a # b
                   /\ grouped[a].type = "Buy"
                   /\ grouped[b].type = "Sell"
                   /\ SameInstrumentDay(all_transactions[i], grouped[a])
                   /\ SameInstrumentDay(all_transactions[j], grouped[b])
       /\ \A a \in 1..Len(grouped) :
             /\ grouped[a].type \in {"Buy", "Sell"}
             /\ grouped[a].grouped_count = Cardinality(Members(grouped[a]))
             /\ grouped[a].shares =
                   SumOver(all_transactions, "shares", Members(grouped[a]))

C1_Witness ==
    /\ pc = "fetch"
    /\ Len(all_transactions) = 3
    /\ \E i, j \in 1..Len(all_transactions) :
          /\ all_transactions[i].type = "Buy"
          /\ all_transactions[j].type = "Sell"
          /\ SameInstrumentDay(all_transactions[i], all_transactions[j])
    /\ Len(grouped) = 2

FullKey(t) == [date |-> t.date, broker |-> t.broker, stock |-> t.stock,
               type |-> t.type, currency |-> t.currency]

-----------------------------------------------------------------------------
(* Properties of fetch_ecb_rates and get_rate_with_fallback (SpecRates).    *)
(* Distances between dates are measured on day numbers, independently of    *)
(* the day-by-day walk of the model.                                        *)

DaysBeforeMonth == <<0, 31, 59, 90, 120, 151, 181, 212, 243, 273, 304, 334>>

DayNumber(date) ==
    LET y == YearOf(date)
        m == MonthOf(date)
        leap == (y % 4 = 0 /\ y % 100 # 0) \/ y % 400 = 0
    IN  365 * (y - 1) + (y - 1) \div 4 - (y - 1) \div 100 + (y - 1) \div 400
          + DaysBeforeMonth[m] + (IF leap /\ m > 2 THEN 1 ELSE 0) + DayOf(date)

Published == {cubes[k].time : k \in 1..Len(cubes)}

\* cubes published between 1 and 5 calendar days before date
CubesBefore(date) ==
    {k \in 1..Len(cubes) :
        /\ DayNumber(date) - DayNumber(cubes[k].time) >= 1
        /\ DayNumber(date) - DayNumber(cubes[k].time) <= 5}

Resolvable(date) == date \in Published \/ CubesBefore(date) # {}

\* the second loop of fetch_ecb_rates has visited date
Visited(date) ==
    /\ pc \notin {"extract", "fetch", "parse"}
    /\ error.kind \notin {"UnknownBroker", "FetchFailed"}
    /\ date \in dates_needed
    /\ date \notin to_visit

\* C3: for a requested date that is not published, resolution succeeds iff a
\* published date lies 1 to 5 calendar days before it; the row stored is then
\* the row of the nearest such date plus the reference currency; otherwise
\* the resolver raises for that date.  Later published dates are never used.
C3_FallbackWindow ==
    \A date \in dates_needed :
       (Visited(date) /\ date \notin Published) =>
          IF CubesBefore(date) = {}
          THEN /\ error.kind = "NoRateFound"
               /\ error.date = date
               /\ date \notin DOMAIN rates
          ELSE LET k == CHOOSE k \in CubesBefore(date) :
                           \A j \in CubesBefore(date) :
                               cubes[j].time <= cubes[k].time
               IN  /\ error.date # date
                   /\ date \in DOMAIN rates
                   /\ DOMAIN rates[date] = DOMAIN cubes[k].row \cup {"EUR"}
                   /\ \A c \in DOMAIN cubes[k].row :
                         rates[date][c] = cubes[k].row[c]
                   /\ pc \in {"tax", "totals", "returned"}
                         => ecb_rates[date] = rates[date]

\* one date resolved from the cube exactly 3 days before it, and the run
\* raised for another whose nearest published date is 6 days before it
C3_Witness ==
    /\ pc = "raised"
    /\ \E date \in dates_needed :
          /\ Visited(date)
          /\ date \notin Published
          /\ date \in DOMAIN rates
          /\ \A k \in CubesBefore(date) :
                DayNumber(date) - DayNumber(cubes[k].time) = 3
    /\ error.kind = "NoRateFound"
    /\ \E k \in 1..Len(cubes) :
          /\ DayNumber(error.date) - DayNumber(cubes[k].time) = 6
          /\ \A j \in 1..Len(cubes) : cubes[j].time <= cubes[k].time

\* C4: when some requested date has no published rate on that date nor on
\* the 5 days before it, fetch_ecb_rates never returns: whatever the order of
\* the visits, no rate table reaches process_statements, no result is
\* produced, the error names a requested date that cannot be resolved, and
\* the run is reported as an error.
C4_NoPartialTable ==
    (\E date \in dates_needed : ~Resolvable(date)) =>
       /\ pc \notin {"tax", "totals", "returned"}
       /\ ecb_rates = <<>>
       /\ results = <<>>
       /\ pc = "fallback" => \E date \in to_visit : ~Resolvable(date)
       /\ pc \in {"raised", "done"} =>
             /\ error.kind = "NoRateFound"
             /\ error.date \in dates_needed
             /\ ~Resolvable(error.date)
       /\ pc = "done" => flash = "error"

\* the run failed on one date after another date had been resolved
C4_Witness ==
    /\ pc = "done"
    /\ flash = "error"
    /\ Cardinality(dates_needed) = 2
    /\ \E date \in dates_needed : Resolvable(date) /\ date \in DOMAIN rates
    /\ \E date \in dates_needed : ~Resolvable(date)
    /\ ecb_rates = <<>>

\* C5: in the table fetch_ecb_rates returns, EUR maps to 1.0 for every date,
\* whatever the published rows contain.
C5_EurIsOne ==
    \A date \in DOMAIN ecb_rates :
       /\ "EUR" \in DOMAIN ecb_rates[date]
       /\ ecb_rates[date]["EUR"] = RateUnit

-----------------------------------------------------------------------------
(* Properties of calculate_tob (SpecTax) and of the whole run (Spec) *)

HasResults == pc \in {"totals", "returned", "done"} /\ error = NoError

\* C6: for a transaction in EUR converted at rate 1.0, eur_amount is the
\* transaction's amount, whatever amount the extractors and the grouper
\* produced.
C6_EurAmountIsAmount ==
    HasResults =>
       \A k \in 1..Len(results) :
          (results[k].currency = "EUR" /\ results[k].rate = RateUnit)
             => results[k].eur_amount = results[k].amount

\* x is n / d rounded to the nearest integer, ties to even (n >= 0, d > 0,
\* with n = whole * d + rest given in two parts to keep the products small)
IsRounded(x, whole, rest, d) ==
    LET y == x - whole
    IN  /\ 2 * Abs(rest - y * d) <= d
        /\ 2 * Abs(rest - y * d) = d => x % 2 = 0

\* rows of calculate_tob(transactions, ecb_rates) in the order p
Permuted(rows, p) == [k \in 1..Len(rows) |-> rows[p[k]]]

ScenarioRow ==
    [date |-> 20250110, broker |-> IB, stock |-> "ABC", type |-> "Buy",
     shares |-> 150, currency |-> "USD", amount |-> 1500000,
     grouped_count |-> 2, rate |-> 10500, eur_amount |-> 1428570,
     tob |-> 5000]

\* C8: conversion is applied once per grouped transaction, to the sum of the
\* amounts of its members over all input texts: eur_amount is that sum
\* divided by the rate, rounded to 2 decimals.  Two Buys of ABC on
\* 2025-01-10 in USD (100 / 1000.00 and 50 / 500.00) at USD = 1.05 give one
\* row of 150 shares, 1500.00, 2 members, 1428.57 and tax 5.00, whether they
\* come from one text or from two.
C8_ConvertAfterGrouping ==
    HasResults =>
       /\ Len(results) = Len(grouped)
       /\ \A k \in 1..Len(results) :
             LET of == {i \in 1..Len(all_transactions) :
                          FullKey(all_transactions[i]) = FullKey(results[k])}
                 sum == SumOver(all_transactions, "amount", of)
                 rate == results[k].rate
             IN  /\ of # {}
                 /\ results[k].amount = sum
                 /\ results[k].grouped_count = Cardinality(of)
                 /\ rate = ecb_rates[results[k].date][results[k].currency]
                 /\ results[k].eur_amount % 10 = 0
                 /\ IsRounded(results[k].eur_amount \div 10,
                              1000 * (sum \div rate), 1000 * (sum % rate), rate)
       /\ ( /\ pdf_paths \in {<<ScenarioBoth>>, <<ScenarioFirst, ScenarioSecond>>,
                              <<ScenarioSecond, ScenarioFirst>>}
            /\ ecb_rates[20250110]["USD"] = 10500 )
          => results = <<ScenarioRow>>

C8_Witness ==
    /\ pc = "done"
    /\ flash = "results"
    /\ pdf_paths = <<ScenarioFirst, ScenarioSecond>>
    /\ results = <<ScenarioRow>>

\* C9: once fetch_ecb_rates has returned a table for the dates of the grouped
\* transactions, calculate_tob never raises its missing-rate error.
C9_LookupNeverFails ==
    error.kind # "NoRateForCurrency"

\* C10: when every text is of a known broker and no raw transaction was
\* extracted, the run ends with the warning, never with an error, whether or
\* not the rate source can be reached.
C10_EmptyIsWarning ==
    ( /\ pc = "done"
      /\ \A k \in 1..Len(pdf_paths) : detect_broker(pdf_paths[k]) # "Unknown"
      /\ all_transactions = <<>> )
    => flash = "warning"

-----------------------------------------------------------------------------
(* Properties of the order of the run's steps (Spec) *)

IsUnknown(k) == detect_broker(pdf_paths[k]) = "Unknown"

\* what the extractor of the text's broker returns
Extracted(text) ==
    IF detect_broker(text) = IB THEN extract_ib_transactions(text)
    ELSE extract_saxo_transactions(text)

\* the raw transactions of the texts before the n-th, in input order
RECURSIVE ExtractedBefore(_)
ExtractedBefore(n) ==
    IF n <= 1 THEN <<>>
    ELSE ExtractedBefore(n - 1) \o Extracted(pdf_paths[n - 1])

\* C11: when a text of the run is of no known broker, the run fails with an
\* error that names the first such text; the texts after it are not
\* extracted, nothing is grouped, the rate source is not asked, no tax is
\* computed and no result is returned, whatever the other texts yielded.
C11_UnknownFailsRun ==
    (\E k \in 1..Len(pdf_paths) : IsUnknown(k)) =>
       LET u == CHOOSE k \in 1..Len(pdf_paths) :
                    IsUnknown(k) /\ \A j \in 1..(k - 1) : ~IsUnknown(j)
       IN  /\ next_pdf <= u
           /\ all_transactions = ExtractedBefore(next_pdf)
           /\ pc \in {"extract", "raised", "done"}
           /\ grouped = <<>> /\ dates_needed = {}
           /\ http_gets = 0 /\ rates = <<>> /\ ecb_rates = <<>>
           /\ results = <<>> /\ totals = <<0, 0>>
           /\ flash \in {"none", "error"}
           /\ pc \in {"raised", "done"} =>
                  /\ next_pdf = u
                  /\ error = Raise("UnknownBroker", NoDate, "", u)
           /\ pc = "done" => flash = "error"

\* the second text is the unknown one, the first yielded transactions
C11_Witness ==
    /\ pc = "done"
    /\ flash = "error"
    /\ error.kind = "UnknownBroker"
    /\ error.input = 2
    /\ all_transactions # <<>>
    /\ results = <<>>

\* C12: the rate source is asked exactly once in every run that gets past
\* extraction - after every text has been extracted and the transactions
\* grouped, before any tax is computed - the fallback search makes no further
\* request, and the run fails when that one request fails.
C12_OneFetchAfterGrouping ==
    /\ [](/\ http_gets \in {0, 1}
          /\ http_gets = 0 =>
                 /\ pc \in {"extract", "fetch"} \/ error.kind = "UnknownBroker"
                 /\ results = <<>> /\ rates = <<>> /\ ecb_rates = <<>>
          /\ http_gets = 1 =>
                 /\ next_pdf = Len(pdf_paths) + 1
                 /\ all_transactions = ExtractedBefore(next_pdf)
                 /\ grouped = group_transactions(all_transactions)
                 /\ dates_needed = {grouped[k].date : k \in 1..Len(grouped)}
          /\ (http_gets = 1 /\ ~reachable) =>
                 /\ pc \in {"raised", "done"}
                 /\ error.kind = "FetchFailed"
                 /\ results = <<>> /\ ecb_rates = <<>>
                 /\ flash \in {"none", "error"}
                 /\ pc = "done" => flash = "error")
    /\ [][/\ http_gets' # http_gets => pc = "fetch" /\ http_gets' = 1
          /\ (pc' = "fetch" /\ pc # "fetch") => pc = "extract"
          /\ pc' = "extract" => pc = "extract"
          /\ results' # results => http_gets = 1 /\ pc = "tax"]_vars

\* a run of two texts that ends with results, one of whose dates the
\* document does not list: the fallback search found it in the document
\* already fetched
C12_Witness ==
    /\ pc = "done"
    /\ flash = "results"
    /\ Len(pdf_paths) = 2
    /\ http_gets = 1
    /\ \E date \in DOMAIN ecb_rates :
          \A k \in 1..Len(cubes) : cubes[k].time # date

-----------------------------------------------------------------------------
(* Further properties of group_transactions (SpecGroup) *)

\* a grouped record written as the one raw transaction it stands for
AsRaw(g) == Raw(g.date, g.broker, g.stock, g.type, g.shares, g.currency, g.amount)

\* C13: grouping is idempotent.  Writing every record of
\* G = group_transactions(R) as one raw transaction and grouping again gives
\* the records of G, in the same order, with the same key, shares and amount,
\* each with member count 1.
C13_GroupingIdempotent ==
    pc = "fetch" =>
       LET singles == [k \in 1..Len(grouped) |-> AsRaw(grouped[k])]
           again == group_transactions(singles)
       IN  /\ Len(again) = Len(grouped)
           /\ \A k \in 1..Len(grouped) :
                  again[k] = [grouped[k] EXCEPT !.grouped_count = 1]
           /\ SumField(again, "grouped_count", 1) = Len(grouped)

\* two records that tie on the sort key, one of them with two members
C13_Witness ==
    /\ pc = "fetch"
    /\ Len(grouped) = 2
    /\ grouped[1].grouped_count + grouped[2].grouped_count = 3
    /\ SameInstrumentDay(grouped[1], grouped[2])

\* (date, broker, instrument) of a is not after that of b
KeyNotAfter(a, b) ==
    \/ a.date < b.date
    \/ a.date = b.date /\ BrokerRank(a.broker) < BrokerRank(b.broker)
    \/ a.date = b.date /\ a.broker = b.broker
          /\ StockRank(a.stock) <= StockRank(b.stock)

\* index in the input of the first transaction with the key of g
FirstOccurrence(g) ==
    CHOOSE k \in 1..Len(all_transactions) :
       /\ FullKey(all_transactions[k]) = FullKey(g)
       /\ \A j \in 1..(k - 1) : FullKey(all_transactions[j]) # FullKey(g)

\* C15: group_transactions returns its records in ascending order of
\* (date, broker, instrument); records that tie on these three, differing in
\* side or currency, are in the order in which their keys first occur in the
\* input.
C15_SortedStable ==
    pc = "fetch" =>
       \A j, k \in 1..Len(grouped) :
          j < k =>
             /\ KeyNotAfter(grouped[j], grouped[k])
             /\ (grouped[j].date = grouped[k].date
                   /\ grouped[j].broker = grouped[k].broker
                   /\ grouped[j].stock = grouped[k].stock)
                => FirstOccurrence(grouped[j]) < FirstOccurrence(grouped[k])

\* three records: the later date came first in the input, and the two
\* records of the earlier date tie, the Sell having come before the Buy
C15_Witness ==
    /\ pc = "fetch"
    /\ Len(grouped) = 3
    /\ all_transactions[1].date > all_transactions[2].date
    /\ grouped[1].type = "Sell"
    /\ grouped[2].type = "Buy"
    /\ grouped[1].date = grouped[2].date
    /\ grouped[1].broker = grouped[2].broker
    /\ grouped[1].stock = grouped[2].stock

-----------------------------------------------------------------------------
(* Properties of extract_ib_transactions (SpecIB, SpecIBFair).  frame.lines *)
(* is the text, frame.i the line the loop is at, frame.transactions the     *)
(* records appended so far.                                                 *)

\* the currency-code line whose section line k is read in, 0 when line k is
\* read outside any section: the last currency-code line before k, provided
\* no line after it up to k itself holds a terminator marker
SectionOf(lines, k) ==
    LET opened == {j \in 1..(k - 1) : lines[j].cur \in IBCurrencies}
        last == CHOOSE j \in opened : \A m \in opened : m <= j
    IN  IF opened # {} /\ \A m \in (last + 1)..k : ~lines[m].term
        THEN last ELSE 0

\* line k is a date line read inside a section, with a line after it
ReadsRow(lines, k) ==
    /\ k + 1 <= Len(lines)
    /\ lines[k].cur \notin IBCurrencies
    /\ lines[k].date # NoDate
    /\ SectionOf(lines, k) # 0

\* the record line k gives rise to, <<>> when none
RecordAt(lines, k) ==
    IF ReadsRow(lines, k)
    THEN IBRecord(lines[k].date, lines[k + 1].parts,
                  lines[SectionOf(lines, k)].cur)
    ELSE <<>>

RECURSIVE RecordsBefore(_, _)
RecordsBefore(lines, n) ==
    IF n <= 1 THEN <<>>
    ELSE RecordsBefore(lines, n - 1) \o RecordAt(lines, n - 1)

\* C16: the scan starts outside any section; a currency-code line enters the
\* section of its code and a terminator line leaves it; a record is
\* appended only for a date line read inside a section (the date line itself
\* holding no terminator marker), with the code of the last currency-code
\* line as its currency, at most one per date line and taken from the line
\* that follows it; after a terminator line no date line gives a record until
\* the next currency-code line.
C16_SectionStateMachine ==
    pc \in {"ib_loop", "ib_returned"} =>
       LET lines == frame.lines
           done == frame.i - 1
           section == IF done = 0 THEN 0
                      ELSE IF lines[done].cur \in IBCurrencies THEN done
                      ELSE SectionOf(lines, done)
       IN  /\ frame.i \in 1..(Len(lines) + 1)
           /\ frame.i = 1 =>
                  /\ ~frame.in_stocks_section
                  /\ frame.current_currency = ""
                  /\ frame.transactions = <<>>
           /\ frame.in_stocks_section <=> section # 0
           /\ frame.current_currency =
                  (IF section = 0 THEN "" ELSE lines[section].cur)
           /\ frame.transactions = RecordsBefore(lines, frame.i)
           /\ \A k \in 1..done : Len(RecordAt(lines, k)) <= 1

\* a section is opened, closed and another one opened: the trade after that
\* is in the currency of the second
C16_Witness ==
    /\ pc = "ib_returned"
    /\ frame.lines = <<CurrencyLine("USD"), TerminatorLine, CurrencyLine("EUR"),
                       DateLine(20250110), GoodRow>>
    /\ Len(frame.transactions) = 1
    /\ frame.transactions[1].currency = "EUR"

\* C14: every raw transaction an extractor appends has shares > 0 and
\* amount > 0.
C14_PositiveSharesAmount ==
    \A k \in 1..Len(frame.transactions) :
       /\ frame.transactions[k].shares > 0
       /\ frame.transactions[k].amount > 0

\* C17: for the row after a date line read inside a section, when token 3
\* has four fraction digits the amount is the absolute value of token 4,
\* otherwise a record is appended all the same, with the absolute value of
\* token 3 as amount; the token taken as amount never has four fraction
\* digits; the side is Sell for a negative and Buy for a positive token 1,
\* whose absolute value is the number of shares.  (Tokens are counted from 0
\* in the statement and from 1 in parts.)
C17_BothLayouts ==
    pc = "ib_returned" =>
       \A k \in 1..(Len(frame.lines) - 1) :
          LET parts == frame.lines[k + 1].parts
              at == IF HasCPrice(parts) THEN 5 ELSE 4
          IN  ( /\ ReadsRow(frame.lines, k)
                /\ Len(parts) >= at
                /\ parts[2].int
                /\ parts[at].float
                /\ ~parts[1].total
                /\ ~IsForexPair(parts[1]) )
              => /\ parts[at].pieces[Len(parts[at].pieces)] # 4
                 /\ \E n \in 1..Len(frame.transactions) :
                       frame.transactions[n] =
                          Raw(frame.lines[k].date, IB, parts[1].name,
                              IF parts[2].iv < 0 THEN "Sell" ELSE "Buy",
                              Abs(parts[2].iv),
                              frame.lines[SectionOf(frame.lines, k)].cur,
                              Abs(parts[at].fv))

\* the row has the five tokens the body asks for and its quantity or its
\* proceeds is not a number
FailsParsing(parts) ==
    /\ Len(parts) >= 5
    /\ \/ ~parts[2].int
       \/ ~(IF HasCPrice(parts) THEN parts[5] ELSE parts[4]).float

\* C18: the scan of every text ends and returns.  Every iteration moves to
\* the next line, whatever the line is; a row that fails numeric parsing
\* adds no record and leaves the section as it is, and the rows after it
\* that parse are still recorded.
C18_ScanTerminates ==
    /\ <>(pc = "ib_returned")
    /\ [][(pc = "ib_loop" /\ pc' = "ib_loop") =>
             /\ frame.i <= Len(frame.lines)
             /\ frame'.i = frame.i + 1
             /\ frame'.lines = frame.lines
             /\ ( /\ ReadsRow(frame.lines, frame.i)
                  /\ FailsParsing(frame.lines[frame.i + 1].parts) )
                => /\ frame'.transactions = frame.transactions
                   /\ frame'.in_stocks_section = frame.in_stocks_section
                   /\ frame'.current_currency = frame.current_currency]_vars
    /\ [](pc = "ib_returned" =>
             /\ frame.i = Len(frame.lines) + 1
             /\ \A k \in 1..Len(frame.lines) :
                   \A n \in 1..Len(RecordAt(frame.lines, k)) :
                      \E m \in 1..Len(frame.transactions) :
                         frame.transactions[m] = RecordAt(frame.lines, k)[n])

\* a row whose quantity is not a number, then a row that parses
C18_Witness ==
    /\ pc = "ib_returned"
    /\ Len(frame.lines) = 5
    /\ frame.lines[3] = BadQuantityRow
    /\ frame.lines[5] = GoodRow
    /\ Len(frame.transactions) = 1
    /\ frame.transactions[1].date = 20250113

-----------------------------------------------------------------------------
(* Properties of extract_saxo_transactions (SpecSaxo) *)

\* the line passes every test made before the amount is looked for
PassesFilter(line) ==
    /\ ~line.cash
    /\ line.date # NoDate
    /\ line.aandelen
    /\ line.koop \/ line.verkoop
    /\ line.currency \in SaxoCurrencies
    /\ line.shares >= 0

\* absolute values of the candidates of the line that reach the threshold
Qualifying(line) ==
    {a \in {Abs(line.cands[k]) : k \in 1..Len(line.cands)} : a >= 2000}

\* the amounts the line contributes: the largest qualifying one, or none
AmountOf(line) ==
    IF PassesFilter(line) /\ Qualifying(line) # {}
    THEN <<CHOOSE a \in Qualifying(line) : \A b \in Qualifying(line) : b <= a>>
    ELSE <<>>

RECURSIVE AmountsBefore(_, _)
AmountsBefore(lines, n) ==
    IF n <= 1 THEN <<>>
    ELSE AmountsBefore(lines, n - 1) \o AmountOf(lines[n - 1])

\* C19: a line that passes the line filter gives one record whose amount is
\* the largest absolute value among its candidates of at least 2.0; when no
\* candidate reaches 2.0 the line gives no record and the scan goes on; a
\* line that fails the filter gives none; the records are in line order and
\* each depends on its own line only.
C19_LargestQualifyingAmount ==
    pc \in {"saxo_loop", "saxo_returned"} =>
       /\ frame.i \in 1..(Len(frame.lines) + 1)
       /\ pc = "saxo_returned" => frame.i = Len(frame.lines) + 1
       /\ [k \in 1..Len(frame.transactions) |-> frame.transactions[k].amount]
             = AmountsBefore(frame.lines, frame.i)

\* a line whose only candidate is 1,99, then a line whose largest candidate
\* is negative
C19_Witness ==
    /\ pc = "saxo_returned"
    /\ Len(frame.lines) = 2
    /\ frame.lines[1] = TradeOf(<<1990>>)
    /\ frame.lines[2] = TradeOf(<<40650, 1000, -26625960, 5000>>)
    /\ Len(frame.transactions) = 1
    /\ frame.transactions[1].amount = 26625960

=============================================================================
